---- MODULE Spec2Model ----
(***************************************************************************)
(* Model of docs/update_translations.py: MarkdownLinkFixer, the link       *)
(* resolution and rewrite engine for a multi-language documentation tree.  *)
(*                                                                         *)
(* Strings are sequences of one-character strings, so that str.replace,    *)
(* Path.with_suffix and the link regex act on characters as in the code.   *)
(* A path is a record [abs, parts] as pathlib.PurePosixPath keeps it.      *)
(* The filesystem is the set of regular files; directories are the proper  *)
(* prefixes of files; there are no symbolic links.                         *)
(* The fixer is constructed with update_links=True, update_text=False.     *)
(***************************************************************************)
EXTENDS Naturals, Sequences, FiniteSets

\* ------------------------------------------------------------------ str

\* s[i..] starts with sub
StartsWithAt(s, sub, i) ==
    /\ i >= 1
    /\ i + Len(sub) - 1 <= Len(s)
    /\ SubSeq(s, i, i + Len(sub) - 1) = sub

\* str.find(sub, i-1) + 1: the least index >= i where sub starts, 0 if none
StrFind(s, sub, i) ==
    LET hits == {j \in i..Len(s) : StartsWithAt(s, sub, j)}
    IN  IF hits = {} THEN 0 ELSE CHOOSE j \in hits : \A k \in hits : j <= k

RECURSIVE StrReplaceFrom(_, _, _, _)
StrReplaceFrom(s, old, new, i) ==
    LET j == StrFind(s, old, i)
    IN  IF j = 0 THEN SubSeq(s, i, Len(s))
        ELSE SubSeq(s, i, j - 1) \o new \o StrReplaceFrom(s, old, new, j + Len(old))

\* str.replace(old, new), old non-empty: every non-overlapping occurrence,
\* found left to right
StrReplace(s, old, new) == StrReplaceFrom(s, old, new, 1)

\* str.rfind(c) + 1 for a character c
StrRFind(s, c) ==
    LET hits == {j \in 1..Len(s) : s[j] = c}
    IN  IF hits = {} THEN 0 ELSE CHOOSE j \in hits : \A k \in hits : j >= k

RECURSIVE StrRepeat(_, _)
StrRepeat(s, n) == IF n = 0 THEN <<>> ELSE s \o StrRepeat(s, n - 1)

\* ----------------------------------------------------------------- path

RECURSIVE SplitSlash(_, _)
\* s[i..] split on "/" (str.split('/'))
SplitSlash(s, i) ==
    LET j == StrFind(s, <<"/">>, i)
    IN  IF j = 0 THEN <<SubSeq(s, i, Len(s))>>
        ELSE <<SubSeq(s, i, j - 1)>> \o SplitSlash(s, j + 1)

\* PurePosixPath(s): empty and "." components are dropped, ".." is kept
Path(s) ==
    [abs   |-> Len(s) >= 1 /\ s[1] = "/",
     parts |-> SelectSeq(SplitSlash(s, 1), LAMBDA p : p # <<>> /\ p # <<".">>)]

RECURSIVE JoinParts(_)
JoinParts(ps) ==
    IF ps = <<>> THEN <<>>
    ELSE IF Len(ps) = 1 THEN ps[1]
    ELSE ps[1] \o <<"/">> \o JoinParts(Tail(ps))

\* str(path)
PathStr(p) ==
    IF p.abs THEN <<"/">> \o JoinParts(p.parts)
    ELSE IF p.parts = <<>> THEN <<".">>
    ELSE JoinParts(p.parts)

\* a / b: an absolute b replaces a
PathJoin(a, b) ==
    IF b.abs THEN b ELSE [abs |-> a.abs, parts |-> a.parts \o b.parts]

RECURSIVE ResolveParts(_, _)
ResolveParts(acc, ps) ==
    IF ps = <<>> THEN acc
    ELSE IF ps[1] = <<".", ".">>
         THEN ResolveParts(IF acc = <<>> THEN acc ELSE SubSeq(acc, 1, Len(acc) - 1),
                           Tail(ps))
    ELSE ResolveParts(Append(acc, ps[1]), Tail(ps))

\* Path.resolve() of an absolute path, no symbolic links: ".." removes the
\* component before it, and stays at the root
Resolve(p) == [abs |-> TRUE, parts |-> ResolveParts(<<>>, p.parts)]

\* PurePath.suffix of a file name
Suffix(name) ==
    LET i == StrRFind(name, ".")
    IN  IF 1 < i /\ i < Len(name) THEN SubSeq(name, i, Len(name)) ELSE <<>>

\* What a call that may raise gives: the exception, or its value
ValueError == [raised |-> TRUE]

Returns(v) == [raised |-> FALSE, value |-> v]

\* Path.with_suffix(suffix): ValueError for an empty name
WithSuffix(p, suffix) ==
    IF p.parts = <<>> THEN ValueError
    ELSE LET name == p.parts[Len(p.parts)]
             stem == SubSeq(name, 1, Len(name) - Len(Suffix(name)))
         IN  Returns([abs |-> p.abs,
                      parts |-> SubSeq(p.parts, 1, Len(p.parts) - 1) \o <<stem \o suffix>>])

IsPrefix(a, b) == Len(a) <= Len(b) /\ SubSeq(b, 1, Len(a)) = a

\* Path.relative_to(other): ValueError when other is no prefix
RelativeTo(p, other) ==
    IF p.abs = other.abs /\ IsPrefix(other.parts, p.parts)
    THEN Returns([abs |-> FALSE,
                  parts |-> SubSeq(p.parts, Len(other.parts) + 1, Len(p.parts))])
    ELSE ValueError

\* Path.parent
Parent(p) ==
    [abs |-> p.abs,
     parts |-> IF p.parts = <<>> THEN <<>> ELSE SubSeq(p.parts, 1, Len(p.parts) - 1)]

\* Path.exists() on the filesystem fs (a set of absolute file paths): a file,
\* or a directory holding one
PathExists(p, fs) ==
    \E f \in fs : f.abs = p.abs /\ IsPrefix(p.parts, f.parts)

\* ---------------------------------------------------------------- regex

\* the least index >= i of a character of cs, 0 if none
FirstOf(s, cs, i) ==
    LET hits == {j \in i..Len(s) : s[j] \in cs}
    IN  IF hits = {} THEN 0 ELSE CHOOSE j \in hits : \A k \in hits : j <= k

NoMatch == [ok |-> FALSE]

\* md_link_regex.match(s, i-1), the pattern \[([^]]+)]\(([^:)]+)\.md\):
\* group 1 runs to the first "]", which "(" must follow; group 2 holds no ":"
\* and no ")", so the ")" closing the link is the first one, and ".md" stands
\* right before it. Both groups are non-empty.
md_link_regex(s, i) ==
    IF i > Len(s) \/ s[i] # "[" THEN NoMatch
    ELSE LET j == FirstOf(s, {"]"}, i + 1)
         IN  IF j < i + 2 \/ j + 1 > Len(s) \/ s[j + 1] # "(" THEN NoMatch
             ELSE LET k == FirstOf(s, {":", ")"}, j + 2)
                  IN  IF k = 0 \/ s[k] # ")" \/ k - 4 < j + 2
                         \/ SubSeq(s, k - 3, k - 1) # <<".", "m", "d">>
                      THEN NoMatch
                      ELSE [ok    |-> TRUE,
                            text  |-> SubSeq(s, i + 1, j - 1),
                            path  |-> SubSeq(s, j + 2, k - 4),
                            start |-> i,
                            end   |-> k]

\* match.group(0)
Group0(s, m) == SubSeq(s, m.start, m.end)

\* ------------------------------------------------------- MarkdownLinkFixer

\* self.base_dir: the docs directory, /d
base_dir == [abs |-> TRUE, parts |-> << <<"d">> >>]

EN == <<"e", "n">>

\* (parent_dir / path).resolve().with_suffix('.md')
linked_path(parent_dir, path) ==
    WithSuffix(Resolve(PathJoin(parent_dir, Path(path))), <<".", "m", "d">>)

\* Path(str(linked_path).replace(str(lang_dir), str(lang_dir.parent / 'en')))
en_linked_path(linked, lang_dir) ==
    Path(StrReplace(PathStr(linked), PathStr(lang_dir),
                    PathStr(PathJoin(Parent(lang_dir), Path(EN)))))

\* A faulty steps_up: the segments of the document itself, its file name
\* counted, len(md_file_path.relative_to(self.base_dir).parts)
steps_up_counting_file(parent_dir) == Len(RelativeTo(parent_dir, base_dir).value.parts) + 1

\* len(parent_dir.relative_to(self.base_dir).parts)
steps_up(parent_dir) == Len(RelativeTo(parent_dir, base_dir).value.parts)

\* str(updated_path).replace('/en/', '/')
StripEn(s) == StrReplace(s, <<"/", "e", "n", "/">>, <<"/">>)

\* Path('../' * steps_up) / en_linked_path.relative_to(self.base_dir), then
\* the replace; ValueError when en_linked_path is not under base_dir
updated_path(parent_dir, en_linked) ==
    LET rel == RelativeTo(en_linked, base_dir)
    IN  IF rel.raised THEN ValueError
        ELSE Returns(StripEn(PathStr(PathJoin(
                 Path(StrRepeat(<<".", ".", "/">>, steps_up(parent_dir))), rel.value))))

\* f'[{text}]({updated_path})'
LinkText(text, target) == <<"[">> \o text \o <<"]", "(">> \o target \o <<")">>

\* link_replacer(match, parent_dir, lang_dir), use_abs_link=False, on the
\* filesystem fs. raised: a ValueError left the function; printed: the lines
\* it printed; text: what it returned.
link_replacer(s, m, parent_dir, lang_dir, fs) ==
    LET linked == linked_path(parent_dir, m.path)
    IN  IF linked.raised
        THEN [raised |-> TRUE, outcome |-> "raised", text |-> <<>>, printed |-> <<>>]
        ELSE IF PathExists(linked.value, fs)
        THEN [raised |-> FALSE, outcome |-> "unchanged", text |-> Group0(s, m),
              printed |-> <<>>]
        ELSE LET en_linked == en_linked_path(linked.value, lang_dir)
             IN  IF PathExists(en_linked, fs)
                 THEN LET updated == updated_path(parent_dir, en_linked)
                      IN  IF updated.raised
                          THEN [raised |-> TRUE, outcome |-> "raised", text |-> <<>>,
                                printed |-> <<>>]
                          ELSE [raised |-> FALSE, outcome |-> "rewritten",
                                text |-> LinkText(m.text, updated.value),
                                printed |-> <<[line |-> "Redirecting link", text |-> m.text,
                                               path |-> m.path,
                                               updated_path |-> updated.value]>>]
                 ELSE [raised |-> FALSE, outcome |-> "broken", text |-> Group0(s, m),
                       printed |-> <<[line |-> "Warning: Broken link", text |-> m.text,
                                      path |-> m.path, updated_path |-> <<>>]>>]

RECURSIVE RegexSub_shifted(_, _, _, _, _)
\* A faulty substitution: after a replacement the scan goes on where the link
\* would end in the text being built, so a replacement of another length
\* moves the spans of the links after it
RegexSub_shifted(s, i, parent_dir, lang_dir, fs) ==
    LET j == FirstOf(s, {"["}, i)
    IN  IF j = 0 THEN [raised |-> FALSE, text |-> SubSeq(s, i, Len(s)), printed |-> <<>>]
        ELSE LET m == md_link_regex(s, j)
             IN  IF ~m.ok
                 THEN LET r == RegexSub_shifted(s, j + 1, parent_dir, lang_dir, fs)
                      IN  [r EXCEPT !.text = SubSeq(s, i, j) \o @]
                 ELSE LET lr == link_replacer(s, m, parent_dir, lang_dir, fs)
                      IN  IF lr.raised
                          THEN [raised |-> TRUE, text |-> <<>>, printed |-> <<>>]
                          ELSE LET r == RegexSub_shifted(s, j + Len(lr.text), parent_dir,
                                                         lang_dir, fs)
                               IN  [raised  |-> r.raised,
                                    text    |-> SubSeq(s, i, j - 1) \o lr.text \o r.text,
                                    printed |-> lr.printed \o r.printed]

RECURSIVE RegexSub(_, _, _, _, _)
\* md_link_regex.sub(lambda m: link_replacer(m, parent_dir, lang_dir), s) from
\* index i on: the matches are found on s itself, left to right, none
\* overlapping another, and a match can only start at a "["; the text between
\* the matches is copied; a ValueError ends the scan
RegexSub(s, i, parent_dir, lang_dir, fs) ==
    LET j == FirstOf(s, {"["}, i)
    IN  IF j = 0 THEN [raised |-> FALSE, text |-> SubSeq(s, i, Len(s)), printed |-> <<>>]
        ELSE LET m == md_link_regex(s, j)
             IN  IF ~m.ok
                 THEN LET r == RegexSub(s, j + 1, parent_dir, lang_dir, fs)
                      IN  [r EXCEPT !.text = SubSeq(s, i, j) \o @]
                 ELSE LET lr == link_replacer(s, m, parent_dir, lang_dir, fs)
                      IN  IF lr.raised
                          THEN [raised |-> TRUE, text |-> <<>>, printed |-> <<>>]
                          ELSE LET r == RegexSub(s, m.end + 1, parent_dir, lang_dir, fs)
                               IN  [raised  |-> r.raised,
                                    text    |-> SubSeq(s, i, j - 1) \o lr.text \o r.text,
                                    printed |-> lr.printed \o r.printed]

\* ------------------------------------------------------------ the tree

\* Links per generated document
MaxLinks == 2

\* Calls of run() in a row
MaxPasses == 2

MD == <<".", "m", "d">>

File(parts) == [abs |-> TRUE, parts |-> << <<"d">> >> \o parts]

fr_a   == File(<< <<"f", "r">>, <<"a">> \o MD >>)
de_g_s == File(<< <<"d", "e">>, <<"g">>, <<"s">> \o MD >>)

\* The files of every tree: the two documents, fr/x.1.md, en/fr/x.md,
\* en/g/en/x.md and enx/x.md
TreeFiles ==
    { fr_a, de_g_s,
      File(<< <<"f", "r">>, <<"x", ".", "1">> \o MD >>),
      File(<< EN, <<"f", "r">>, <<"x">> \o MD >>),
      File(<< EN, <<"g">>, EN, <<"x">> \o MD >>),
      File(<< <<"e", "n", "x">>, <<"x">> \o MD >>) }

\* The files a tree may hold besides: en/b.md, en/x.md
OptionalFiles ==
    { File(<< EN, <<"b">> \o MD >>),
      File(<< EN, <<"x">> \o MD >>) }

Link(text, target) == LinkText(text, target \o MD)

\* What fr/a.md is written from: links to b.md, x.1.md, fr/x.md and ../...md
Fragments ==
    << Link(<<"B">>, <<"b">>),
       Link(<<"[", "V">>, <<"x", ".", "1">>),
       Link(<<"X">>, <<"f", "r", "/", "x">>),
       Link(<<"R">>, <<".", ".", "/", ".", ".">>) >>

RECURSIVE Written(_)
\* The fragments picked by the index sequence ix, a space after each
Written(ix) ==
    IF ix = <<>> THEN <<>> ELSE Fragments[ix[1]] \o <<" ">> \o Written(Tail(ix))

Texts_fr_a ==
    {Written(ix) : ix \in UNION {[1..n -> 1..Len(Fragments)] : n \in 0..MaxLinks}}

\* de/g/s.md: "see [S](../b.md)[A](s.md)." or
\* "[c](d:e.md)(b.md) [G](en/x.md)[P](../../dex/x.md)"
Texts_de_g_s ==
    { <<"s", "e", "e", " ">> \o Link(<<"S">>, <<".", ".", "/", "b">>)
          \o Link(<<"A">>, <<"s">>) \o <<".">>,
      <<"[", "c", "]", "(", "d", ":", "e", ".", "m", "d", ")", "(", "b", ".", "m", "d", ")", " ">>
          \o Link(<<"G">>, <<"e", "n", "/", "x">>)
          \o Link(<<"P">>, <<".", ".", "/", ".", ".", "/", "d", "e", "x", "/", "x">>) }

\* ------------------------------------------------------------ the state

VARIABLES
    files,      \* the regular files of the filesystem
    content,    \* content[f]: the text of file f
    initial,    \* content when the fixer was constructed
    read,       \* read[f]: the text process_markdown_file last read from f
    printed,    \* printed[f]: the lines the current run printed for file f
    pc,         \* "idle", "running" (inside run()), "raised" (a ValueError ended it)
    passNo,     \* the calls of run() so far
    dirs_done,  \* the language directories run() has taken up
    cur,        \* the language directory being processed
    done        \* the files process_markdown_file has written in this run

vars == <<files, content, initial, read, printed, pc, passNo, dirs_done, cur, done>>

\* Path('.'): no language directory yet
NoDir == [abs |-> FALSE, parts |-> <<>>]

Init ==
    /\ \E S \in SUBSET OptionalFiles : files = TreeFiles \cup S
    /\ \E ta \in Texts_fr_a, ts \in Texts_de_g_s :
          content = [f \in files |->
                        IF f = fr_a THEN ta ELSE IF f = de_g_s THEN ts ELSE <<>>]
    /\ initial = content
    /\ read = [f \in files |-> <<>>]
    /\ printed = [f \in files |-> <<>>]
    /\ pc = "idle"
    /\ passNo = 0
    /\ dirs_done = {}
    /\ cur = NoDir
    /\ done = {}

\* re.match(r'^\w\w$', name) and name != 'en'
IsLangName(name) ==
    /\ Len(name) = 2
    /\ \A i \in 1..2 : name[i] \notin {"/", ".", "[", "]", "(", ")", ":", " "}
    /\ name # EN

\* base_dir.iterdir() filtered as run() does: the two-character directories
\* other than en
LangDirs ==
    { [abs |-> TRUE, parts |-> SubSeq(f.parts, 1, Len(base_dir.parts) + 1)] :
        f \in { g \in files : /\ IsPrefix(base_dir.parts, g.parts)
                              /\ Len(g.parts) > Len(base_dir.parts) + 1
                              /\ IsLangName(g.parts[Len(base_dir.parts) + 1]) } }

\* A faulty file listing: self.base_dir.rglob('*.md'), the files of every
\* directory, whichever language directory is being processed
MdFiles_of_base_dir(lang_dir) ==
    { f \in files : /\ IsPrefix(base_dir.parts, f.parts)
                    /\ Len(f.parts) > Len(base_dir.parts)
                    /\ LET name == f.parts[Len(f.parts)]
                       IN  Len(name) >= 3 /\ SubSeq(name, Len(name) - 2, Len(name)) = MD }

\* lang_dir.rglob('*.md')
MdFiles(lang_dir) ==
    { f \in files : /\ IsPrefix(lang_dir.parts, f.parts)
                    /\ Len(f.parts) > Len(lang_dir.parts)
                    /\ LET name == f.parts[Len(f.parts)]
                       IN  Len(name) >= 3 /\ SubSeq(name, Len(name) - 2, Len(name)) = MD }

\* run() is called
run ==
    /\ pc = "idle"
    /\ passNo < MaxPasses
    /\ pc' = "running"
    /\ passNo' = passNo + 1
    /\ dirs_done' = {}
    /\ cur' = NoDir
    /\ done' = {}
    /\ printed' = [f \in files |-> <<>>]
    /\ UNCHANGED <<files, content, initial, read>>

\* run() takes up the next language directory, the one before it finished
process_language_directory(lang_dir) ==
    /\ pc = "running"
    /\ lang_dir \in LangDirs \ dirs_done
    /\ cur # NoDir => MdFiles(cur) \subseteq done
    /\ cur' = lang_dir
    /\ dirs_done' = dirs_done \cup {lang_dir}
    /\ UNCHANGED <<files, content, initial, read, printed, pc, passNo, done>>

\* process_markdown_file(md_file_path, lang_dir) with update_text off: the
\* file is read, the links are replaced, the file is written; a ValueError
\* leaves the file as it was and ends run()
process_markdown_file(md_file_path) ==
    /\ pc = "running"
    /\ cur # NoDir
    /\ md_file_path \in MdFiles(cur) \ done
    /\ LET r == RegexSub(content[md_file_path], 1, Parent(md_file_path), cur, files)
       IN  /\ read' = [read EXCEPT ![md_file_path] = content[md_file_path]]
           /\ printed' = [printed EXCEPT ![md_file_path] = r.printed]
           /\ IF r.raised
              THEN /\ pc' = "raised"
                   /\ UNCHANGED <<content, done>>
              ELSE /\ content' = [content EXCEPT ![md_file_path] = r.text]
                   /\ done' = done \cup {md_file_path}
                   /\ pc' = pc
    /\ UNCHANGED <<files, initial, passNo, dirs_done, cur>>

\* run() returns: every language directory was processed
run_returns ==
    /\ pc = "running"
    /\ dirs_done = LangDirs
    /\ cur # NoDir => MdFiles(cur) \subseteq done
    /\ pc' = "idle"
    /\ UNCHANGED <<files, content, initial, read, printed, passNo, dirs_done, cur, done>>

Next ==
    \/ run
    \/ \E lang_dir \in LangDirs : process_language_directory(lang_dir)
    \/ \E md_file_path \in files : process_markdown_file(md_file_path)
    \/ run_returns

Spec == Init /\ [][Next]_vars

\* ------------------------------------------------------------- claims

RECURSIVE FindIterFrom(_, _)
FindIterFrom(s, i) ==
    LET j == FirstOf(s, {"["}, i)
    IN  IF j = 0 THEN <<>>
        ELSE LET m == md_link_regex(s, j)
             IN  IF m.ok THEN <<m>> \o FindIterFrom(s, m.end + 1)
                 ELSE FindIterFrom(s, j + 1)

\* The links of text s, in order: the matches of the pattern, left to right,
\* none overlapping another
FindIter(s) == FindIterFrom(s, 1)

\* The language directory holding file f
LangDirOf(f) == [abs |-> TRUE, parts |-> SubSeq(f.parts, 1, Len(base_dir.parts) + 1)]

\* A file that run() processes
IsDocument(f) == \E lang_dir \in LangDirs : f \in MdFiles(lang_dir)

\* What link_replacer gives for each link of the text last read from f
Replaced(f) ==
    LET ms == FindIter(read[f])
    IN  [k \in 1..Len(ms) |->
            link_replacer(read[f], ms[k], Parent(f), LangDirOf(f), files)]

RECURSIVE Splice(_, _, _, _)
\* s from the end of link k-1 on, with each link ms[j], j >= k, replaced by
\* reps[j] and the text between the links kept
Splice(s, ms, reps, k) ==
    LET from == IF k = 1 THEN 1 ELSE ms[k - 1].end + 1
    IN  IF k > Len(ms) THEN SubSeq(s, from, Len(s))
        ELSE SubSeq(s, from, ms[k].start - 1) \o reps[k] \o Splice(s, ms, reps, k + 1)

\* The file a link with target path.md names, seen from directory parent_dir
NamedTarget(parent_dir, path) == Resolve(PathJoin(parent_dir, Path(path \o MD)))

\* p lies below directory dir
UnderDir(p, dir) == IsPrefix(dir.parts, p.parts) /\ Len(p.parts) > Len(dir.parts)

\* The reference directory, /d/en
ReferenceDir == [abs |-> TRUE, parts |-> base_dir.parts \o <<EN>>]

\* p with the language directory's segment replaced by en, and no other
\* component touched; a p outside lang_dir as it is
ReferencePath(p, lang_dir) ==
    IF UnderDir(p, lang_dir)
    THEN [abs |-> TRUE,
          parts |-> ReferenceDir.parts \o SubSeq(p.parts, Len(lang_dir.parts) + 1, Len(p.parts))]
    ELSE p

\* The segments of the document's directory below the tree root
Depth(f) == Len(Parent(f).parts) - Len(base_dir.parts)

\* C5 (non-link text preservation): the text written for a document is the
\* text read with each link replaced by what link_replacer gives for that link
\* of the text read, and every character between the links kept in place; each
\* replacement is one link with the display text of the link it replaces.
C5_NonLinkTextPreserved ==
    \A f \in done :
        LET ms   == FindIter(read[f])
            reps == Replaced(f)
        IN  /\ content[f] = Splice(read[f], ms, [k \in 1..Len(ms) |-> reps[k].text], 1)
            /\ \A k \in 1..Len(ms) :
                  LET n == md_link_regex(reps[k].text, 1)
                  IN  n.ok /\ n.end = Len(reps[k].text) /\ n.text = ms[k].text

\* C5 witness: a written document with text before its first link and two
\* links or more, one of them rewritten
C5_Witness ==
    \E f \in done :
        LET ms == FindIter(read[f])
        IN  /\ Len(ms) >= 2
            /\ ms[1].start > 1
            /\ \E k \in 1..Len(ms) : Replaced(f)[k].outcome = "rewritten"
            /\ content[f] # read[f]

RECURSIVE Rewritten(_, _)
\* The text of document f after n rewrite passes over it alone
Rewritten(f, n) ==
    IF n = 0 THEN initial[f]
    ELSE RegexSub(Rewritten(f, n - 1), 1, Parent(f), LangDirOf(f), files).text

PlainCandidate(f, k) ==
    LET ms == FindIter(read[f])
        lp == linked_path(Parent(f), ms[k].path)
    IN  /\ link_replacer(read[f], ms[k], Parent(f), LangDirOf(f), files).outcome = "rewritten"
        /\ LET cand == en_linked_path(lp.value, LangDirOf(f))
           IN  /\ UnderDir(cand, ReferenceDir)
               /\ \A i \in Len(ReferenceDir.parts) + 1..Len(cand.parts) : cand.parts[i] # EN

C1_FallbackCorrectness ==
    \A f \in done :
        LET ms == FindIter(read[f])
            ns == FindIter(content[f])
        IN  \A k \in 1..Len(ms) :
                LET t == NamedTarget(Parent(f), ms[k].path)
                IN  ( /\ UnderDir(t, LangDirOf(f))
                      /\ ~PathExists(t, files)
                      /\ PathExists(ReferencePath(t, LangDirOf(f)), files) )
                    => /\ k <= Len(ns)
                       /\ NamedTarget(Parent(f), ns[k].path) = ReferencePath(t, LangDirOf(f))

\* C2 (idempotence): a pass over a document that an earlier pass has written
\* changes nothing and classifies no link as rewritten.
C2_Idempotence ==
    \A f \in done :
        passNo >= 2 =>
            /\ content[f] = read[f]
            /\ \A i \in 1..Len(printed[f]) : printed[f][i].line # "Redirecting link"

\* C3 (locality preservation): a link whose target file exists under the
\* document's language directory is written as it was read, its outcome
\* unchanged, whether or not the file also exists under en.
C3_LocalityPreservation ==
    \A f \in done :
        LET ms   == FindIter(read[f])
            ns   == FindIter(content[f])
            reps == Replaced(f)
        IN  \A k \in 1..Len(ms) :
                LET t == NamedTarget(Parent(f), ms[k].path)
                IN  (UnderDir(t, LangDirOf(f)) /\ PathExists(t, files))
                    => /\ reps[k].outcome = "unchanged"
                       /\ k <= Len(ns)
                       /\ Group0(content[f], ns[k]) = Group0(read[f], ms[k])

\* The warnings printed for document f that name the link (text, path)
Warnings(f, text, path) ==
    {i \in 1..Len(printed[f]) :
        /\ printed[f][i].line = "Warning: Broken link"
        /\ printed[f][i].text = text
        /\ printed[f][i].path = path}

\* C4 (broken-link stability): a link whose target exists neither under the
\* language directory nor at the corresponding path under en is written as it
\* was read, with one warning for it and no error, and the links after it are
\* resolved.
C4_BrokenLinkStability ==
    \A f \in done :
        LET ms   == FindIter(read[f])
            ns   == FindIter(content[f])
            reps == Replaced(f)
        IN  \A k \in 1..Len(ms) :
                LET t == NamedTarget(Parent(f), ms[k].path)
                IN  ( /\ ~PathExists(t, files)
                      /\ ~(UnderDir(t, LangDirOf(f))
                           /\ PathExists(ReferencePath(t, LangDirOf(f)), files)) )
                    => /\ reps[k].outcome = "broken"
                       /\ k <= Len(ns)
                       /\ Group0(content[f], ns[k]) = Group0(read[f], ms[k])
                       /\ Cardinality(Warnings(f, ms[k].text, ms[k].path))
                            = Cardinality({j \in 1..Len(ms) :
                                  ms[j].text = ms[k].text /\ ms[j].path = ms[k].path})
                       /\ content[f] = Splice(read[f], ms,
                                              [j \in 1..Len(ms) |-> reps[j].text], 1)

RECURSIVE DropFirstEn(_)
\* The segments ps without the first one named en that is not the last
DropFirstEn(ps) ==
    IF Len(ps) <= 1 THEN ps
    ELSE IF ps[1] = EN THEN Tail(ps)
    ELSE <<ps[1]>> \o DropFirstEn(Tail(ps))

\* C8 (single stripping): of the segments named en inside the rewritten path,
\* the parent steps followed by the candidate's path from the root, only the
\* first is removed; a later one stays in the link written.
C8_SingleStripping ==
    \A f \in done :
        LET ms   == FindIter(read[f])
            ns   == FindIter(content[f])
            reps == Replaced(f)
        IN  \A k \in 1..Len(ms) :
                reps[k].outcome = "rewritten" =>
                    LET cand == en_linked_path(linked_path(Parent(f), ms[k].path).value,
                                               LangDirOf(f))
                        ups  == [i \in 1..Depth(f) |-> <<".", ".">>]
                        rel  == SubSeq(cand.parts, Len(base_dir.parts) + 1, Len(cand.parts))
                        full == ups \o rel
                    IN  Cardinality({i \in 1..Len(full) - 1 : full[i] = EN}) > 1
                        => /\ k <= Len(ns)
                           /\ ns[k].path \o MD = JoinParts(DropFirstEn(full))

\* C9 (reference-candidate construction): for a link whose local target is
\* missing, the candidate checked in the reference tree is the target with the
\* language directory's segment replaced by en and nothing else; a target
\* outside the language directory is left as it is.
C9_ReferenceCandidate ==
    \A f \in done :
        LET ms == FindIter(read[f])
        IN  \A k \in 1..Len(ms) :
                LET lp == linked_path(Parent(f), ms[k].path)
                IN  (~lp.raised /\ ~PathExists(lp.value, files))
                    => en_linked_path(lp.value, LangDirOf(f))
                         = ReferencePath(lp.value, LangDirOf(f))

\* C10 (target-path resolution): the path whose existence is checked for a
\* link [text](p.md) of a document in directory D is the normalized D/p.md,
\* also when the last component of p holds a dot.
C10_TargetPathResolution ==
    \A f \in done :
        LET ms == FindIter(read[f])
        IN  \A k \in 1..Len(ms) :
                LET lp == linked_path(Parent(f), ms[k].path)
                IN  ~lp.raised /\ lp.value = NamedTarget(Parent(f), ms[k].path)

====
